---------------------------- MODULE Spec2Model ----------------------------
(***************************************************************************)
(* The game loop of snake.py: the snake body on a toroidal grid, deferred  *)
(* growth, the held-key direction buffer, the food and frame deadlines and *)
(* the pause / game-over control flow.                                     *)
(*                                                                         *)
(* Time is counted in whole units; `interval' units make one frame and     *)
(* `Second' units one second.                                              *)
(***************************************************************************)
EXTENDS Integers, Sequences, FiniteSets, TLC

\* ------------------------------------------------------------- constants
PARTS_AFTER_FOOD == 3
INITIAL_LENGTH == 4

\* Frames per second.  The source runs at 16; the model scales the rate down,
\* which only shortens a food delay counted in frame intervals.
FPS == 1

\* Time is counted in units of which Resolution make one frame interval, so
\* that the loop can run between two frame deadlines.
Resolution == 2

\* 1 / FPS seconds, and one second, in time units.
interval == Resolution
Second == FPS * interval

\* The grid: the screen size divided by SCALE, whatever the screen is.
world_width == 3
world_height == 7

\* Bounds of the exploration: the time that passes and the key events sent.
MaxTime == 6
MaxEvents == 3

\* ------------------------------------------------------------ Direction
UP == 1
RIGHT == 2
DOWN == 3
LEFT == 4
Direction == {UP, RIGHT, DOWN, LEFT}

Min(a, b) == IF a <= b THEN a ELSE b
Max(a, b) == IF a >= b THEN a ELSE b

reversed(direction1, direction2) ==
    Min(direction1, direction2) + 2 = Max(direction1, direction2)

vector(d) ==
    CASE d = UP    -> <<0, -1>>
      [] d = RIGHT -> <<1, 0>>
      [] d = DOWN  -> <<0, 1>>
      [] d = LEFT  -> <<-1, 0>>

add_vectors(vec1, vec2) == <<vec1[1] + vec2[1], vec1[2] + vec2[2]>>

\* ------------------------------------------------------------ food delay
\* range(1, 5)
next_food_range == 1 .. 4

\* random.choice(food_range) + random.random(), in time units: the fraction
\* in [0, 1) of a second is one of 0 .. Second - 1 units.
get_next_food_time ==
    {c * Second + j : c \in next_food_range, j \in 0 .. Second - 1}

\* The outcomes of get_next_food_time that the exploration follows: the
\* shortest delay, the next one and the longest.
SpawnDelays ==
    {Second, Second + 1, 5 * Second - 1} \cap get_next_food_time

\* (random.randint(0, world_width), random.randint(0, world_height)): both
\* ends inclusive.
RandomCells == {<<x, y>> : x \in 0 .. world_width, y \in 0 .. world_height}

\* The outcomes of the two randint calls that the exploration follows: the
\* cell above the initial head, and one cell on each inclusive upper end.
SpawnCells ==
    {c \in RandomCells :
        \/ c = <<world_width \div 2, (world_height \div 2) - 1>>
        \/ c = <<world_width, (world_height \div 2) - 1>>
        \/ c = <<world_width \div 2, world_height>>}

\* ------------------------------------------------------------ sequences
Range(s) == {s[i] : i \in 1 .. Len(s)}

\* list.count
count(s, e) == Cardinality({i \in 1 .. Len(s) : s[i] = e})

\* list.remove: drops the first occurrence (the caller checks membership).
remove(s, e) ==
    LET k == CHOOSE i \in 1 .. Len(s) :
                 s[i] = e /\ \A j \in 1 .. i - 1 : s[j] # e
    IN  SubSeq(s, 1, k - 1) \o SubSeq(s, k + 1, Len(s))

\* ---------------------------------------------------------------- state
VARIABLES
    snake,          \* body cells, head first
    spare_parts,    \* pending growth
    direction,      \* held movement keys, in press order
    last_direction, \* key whose release emptied `direction'
    food,           \* set of food cells
    next_food,      \* food deadline
    next_frame,     \* frame deadline
    running,
    paused,
    now,            \* time.time()
    pc,             \* "loop": game loop, "final": score screen loop,
                    \* "exit": os._exit, "error": uncaught exception
    nev,            \* key events sent so far
    press_rank,     \* history: per direction, 0 when the key is up, else
                    \* its place among the held keys in press order
    released,       \* history: the key released last (UP when none was)
    space_time,     \* history: time of the last space press (-1: none)
    eaten           \* history: food cells eaten so far

vars == <<snake, spare_parts, direction, last_direction, food, next_food,
          next_frame, running, paused, now, pc, nev, press_rank, released,
          space_time, eaten>>

snake_vars == <<snake, spare_parts, food>>
key_vars == <<direction, last_direction>>
clock_vars == <<next_food, next_frame>>
hist_vars == <<press_rank, released, space_time, eaten>>

\* The start that schedules the first food spawn with a sample.
InitFirstSpawnSampled ==
    /\ snake = [i \in 1 .. INITIAL_LENGTH |->
                   <<world_width \div 2, (world_height \div 2) + (i - 1)>>]
    /\ spare_parts = 0
    /\ direction = <<>>
    /\ last_direction = UP
    /\ food = {}
    /\ next_food \in SpawnDelays
    /\ next_frame = 0
    /\ running = TRUE
    /\ paused = FALSE
    /\ now = 0
    /\ pc = "loop"
    /\ nev = 0
    /\ press_rank = [d \in Direction |-> 0]
    /\ released = UP
    /\ space_time = -1
    /\ eaten = 0

Init ==
    /\ snake = [i \in 1 .. INITIAL_LENGTH |->
                   <<world_width \div 2, (world_height \div 2) + (i - 1)>>]
    /\ spare_parts = 0
    /\ direction = <<>>
    /\ last_direction = UP
    /\ food = {}
    /\ next_food = 0
    /\ next_frame = 0
    /\ running = TRUE
    /\ paused = FALSE
    /\ now = 0
    /\ pc = "loop"
    /\ nev = 0
    /\ press_rank = [d \in Direction |-> 0]
    /\ released = UP
    /\ space_time = -1
    /\ eaten = 0

\* The quit without `paused = True`: the iteration goes on to the food spawn.
QuitThenSpawns ==
    /\ pc = "loop"
    /\ running' = FALSE
    /\ pc' = "final"
    /\ IF now >= next_food
       THEN \E c \in SpawnCells, s \in SpawnDelays :
               /\ food' = food \cup {c}
               /\ next_food' = next_food + s
       ELSE UNCHANGED <<food, next_food>>
    /\ UNCHANGED <<snake, spare_parts, key_vars, next_frame, paused, now, nev,
                   hist_vars>>

\* --------------------------------------------------------------- events
\* QUIT, or KEYDOWN K_ESCAPE: leave the event loop, skip the frame (paused
\* is set), leave the game loop.
Quit ==
    /\ pc = "loop"
    /\ running' = FALSE
    /\ paused' = TRUE
    /\ pc' = "final"
    /\ UNCHANGED <<snake_vars, key_vars, clock_vars, now, nev, hist_vars>>

\* The space press without the reset of the food deadline.
SpaceKeepsFoodDeadline ==
    /\ pc = "loop"
    /\ nev < MaxEvents
    /\ nev' = nev + 1
    /\ paused' = ~paused
    /\ next_frame' = now
    /\ space_time' = now
    /\ UNCHANGED <<snake_vars, key_vars, next_food, running, now, pc,
                   press_rank, released, eaten>>

\* KEYDOWN K_SPACE
Space ==
    /\ pc = "loop"
    /\ nev < MaxEvents
    /\ nev' = nev + 1
    /\ paused' = ~paused
    /\ \E s \in SpawnDelays : next_food' = now + s
    /\ next_frame' = now
    /\ space_time' = now
    /\ UNCHANGED <<snake_vars, key_vars, running, now, pc, press_rank,
                   released, eaten>>

\* KEYDOWN of a movement key.  Key repeat is off (pygame's default), so a
\* key that is held sends no second KEYDOWN.
KeyDown(d) ==
    /\ pc = "loop"
    /\ nev < MaxEvents
    /\ nev' = nev + 1
    /\ d \notin Range(direction)
    /\ direction' = Append(direction, d)
    /\ press_rank' = [press_rank EXCEPT ![d] = Len(direction) + 1]
    /\ UNCHANGED <<snake_vars, last_direction, clock_vars, running, paused,
                   now, pc, released, space_time, eaten>>

\* KEYUP of a movement key: list.remove raises ValueError when the key is
\* not in the list, and nothing catches it.
KeyUp(d) ==
    /\ pc = "loop"
    /\ nev < MaxEvents
    /\ nev' = nev + 1
    /\ IF d \in Range(direction)
       THEN /\ direction' = remove(direction, d)
            /\ last_direction' =
                   IF Len(direction') = 0 THEN d ELSE last_direction
            /\ pc' = pc
       ELSE /\ pc' = "error"
            /\ UNCHANGED key_vars
    /\ press_rank' =
           [e \in Direction |->
               IF e = d THEN 0
               ELSE IF press_rank[d] > 0 /\ press_rank[e] > press_rank[d]
                    THEN press_rank[e] - 1 ELSE press_rank[e]]
    /\ released' = d
    /\ UNCHANGED <<snake_vars, clock_vars, running, paused, now, space_time,
                   eaten>>

\* ----------------------------------------------------------------- tick
\* The direction of the key held longest instead of the one pressed last.
current_direction_first ==
    IF Len(direction) = 0 THEN last_direction ELSE direction[1]

\* The direction of this tick (line 168, before Direction.vector).
current_direction ==
    IF Len(direction) = 0 THEN last_direction ELSE direction[Len(direction)]

\* The shift that copies from the head towards the tail: every segment
\* ends on the old head cell.
ShiftedHeadFirst(s, d) ==
    <<add_vectors(s[1], vector(d))>> \o [i \in 1 .. Len(s) - 1 |-> s[1]]

\* Lines 171-174: every segment takes the place of the one before it; the
\* head moves by the direction vector, not yet wrapped.
Shifted(s, d) ==
    <<add_vectors(s[1], vector(d))>> \o SubSeq(s, 1, Len(s) - 1)

\* snake.count(snake[0]) > 1
Collided(s) == count(s, s[1]) > 1

\* The wrap with the x axis left out.
WrappedRowsOnly(s) == <<<<s[1][1], s[1][2] % world_height>>>> \o Tail(s)

\* Loop head around edges of screen.
Wrapped(s) ==
    <<<<s[1][1] % world_width, s[1][2] % world_height>>>> \o Tail(s)

\* The growth step without `spare_parts -= 1'.
GrownKeepsParts(s, last_body, parts) ==
    IF parts > 0 THEN <<Append(s, last_body), parts>> ELSE <<s, parts>>

\* The growth that appends the cell of the last segment after the shift.
GrownFromLastSegment(s, last_body, parts) ==
    IF parts > 0 THEN <<Append(s, s[Len(s)]), parts - 1>> ELSE <<s, parts>>

\* Add new part if there are parts to add: the body and the spare parts.
Grown(s, last_body, parts) ==
    IF parts > 0 THEN <<Append(s, last_body), parts - 1>> ELSE <<s, parts>>

\* The eating step with the food set cleared instead of food.remove.
EatenClearsFood(s, parts, f) ==
    IF s[1] \in f THEN <<parts + PARTS_AFTER_FOOD, {}>> ELSE <<parts, f>>

\* The eating that takes the food cells as wrapped around the world.
EatenModuloWorld(s, parts, f) ==
    LET on_head == {c \in f :
                       <<c[1] % world_width, c[2] % world_height>> = s[1]}
    IN  IF on_head # {} THEN <<parts + PARTS_AFTER_FOOD, f \ on_head>>
        ELSE <<parts, f>>

\* The eating that gives one part for a food cell.
EatenOnePart(s, parts, f) ==
    IF s[1] \in f THEN <<parts + 1, f \ {s[1]}>> ELSE <<parts, f>>

\* Add new parts after eating food: the spare parts and the food set.
Eaten(s, parts, f) ==
    IF s[1] \in f THEN <<parts + PARTS_AFTER_FOOD, f \ {s[1]}>>
    ELSE <<parts, f>>

\* Spawn food (lines 155-157): the food set and the food deadline after it.
SpawnFood ==
    IF now >= next_food
    THEN {<<food \cup {c}, next_food + s>> :
             c \in SpawnCells, s \in SpawnDelays}
    ELSE {<<food, next_food>>}

\* The pause test placed after the food spawn.
PausedFrameSpawns ==
    /\ pc = "loop"
    /\ paused
    /\ \E o \in SpawnFood :
          /\ food' = o[1]
          /\ next_food' = o[2]
    /\ UNCHANGED <<snake, spare_parts, key_vars, next_frame, running, paused,
                   now, pc, nev, hist_vars>>

\* Skip rendering if paused (lines 148-149).
PausedFrame ==
    /\ pc = "loop"
    /\ paused
    /\ UNCHANGED vars

\* The loop iteration before the frame deadline that leaves the food alone.
IdleFrameWithoutSpawn ==
    /\ pc = "loop"
    /\ ~paused
    /\ now < next_frame
    /\ UNCHANGED vars

\* A loop iteration before the frame deadline (lines 152-161).
IdleFrame ==
    /\ pc = "loop"
    /\ ~paused
    /\ \E o \in SpawnFood :
          /\ food' = o[1]
          /\ next_food' = o[2]
    /\ now < next_frame
    /\ UNCHANGED <<snake, spare_parts, key_vars, next_frame, running, paused,
                   now, pc, nev, hist_vars>>

\* The tick that restarts the frame clock from the current time.
TickFrameFromNow ==
    /\ pc = "loop"
    /\ ~paused
    /\ now >= next_frame
    /\ next_frame' = now + interval
    /\ \E o \in SpawnFood :
          LET last_body == snake[Len(snake)]
              moved == Shifted(snake, current_direction)
          IN  /\ next_food' = o[2]
              /\ IF Collided(moved)
                 THEN /\ snake' = moved
                      /\ running' = FALSE
                      /\ pc' = "final"
                      /\ food' = o[1]
                      /\ UNCHANGED <<spare_parts, eaten>>
                 ELSE LET g == Grown(Wrapped(moved), last_body, spare_parts)
                          e == Eaten(g[1], g[2], o[1])
                      IN  /\ snake' = g[1]
                          /\ spare_parts' = e[1]
                          /\ food' = e[2]
                          /\ eaten' = IF g[1][1] \in o[1]
                                      THEN eaten + 1 ELSE eaten
                          /\ UNCHANGED <<running, pc>>
    /\ UNCHANGED <<key_vars, paused, now, nev, press_rank, released,
                   space_time>>

\* A loop iteration at or after the frame deadline (lines 152-206): the
\* snake moves; the game ends when the moved head is on the body.
TickFrame ==
    /\ pc = "loop"
    /\ ~paused
    /\ now >= next_frame
    /\ next_frame' = next_frame + interval
    /\ \E o \in SpawnFood :
          LET last_body == snake[Len(snake)]
              moved == Shifted(snake, current_direction)
          IN  /\ next_food' = o[2]
              /\ IF Collided(moved)
                 THEN /\ snake' = moved
                      /\ running' = FALSE
                      /\ pc' = "final"
                      /\ food' = o[1]
                      /\ UNCHANGED <<spare_parts, eaten>>
                 ELSE LET g == Grown(Wrapped(moved), last_body, spare_parts)
                          e == Eaten(g[1], g[2], o[1])
                      IN  /\ snake' = g[1]
                          /\ spare_parts' = e[1]
                          /\ food' = e[2]
                          /\ eaten' = IF g[1][1] \in o[1]
                                      THEN eaten + 1 ELSE eaten
                          /\ UNCHANGED <<running, pc>>
    /\ UNCHANGED <<key_vars, paused, now, nev, press_rank, released,
                   space_time>>

\* The score counting the segments still owed.
score_with_spare_parts == Len(snake) + spare_parts

\* The score of the final screen (line 215).
score == Len(snake)

\* The score screen (lines 227-233): KEYDOWN K_ESCAPE ends the process.
Exit ==
    /\ pc = "final"
    /\ pc' = "exit"
    /\ UNCHANGED <<snake_vars, key_vars, clock_vars, running, paused, now,
                   nev, hist_vars>>

\* Wall-clock time passes.
Advance ==
    /\ pc = "loop"
    /\ now < MaxTime
    /\ now' = now + 1
    /\ UNCHANGED <<snake_vars, key_vars, clock_vars, running, paused, pc,
                   nev, hist_vars>>

Next ==
    \/ Quit
    \/ Space
    \/ \E d \in Direction : KeyDown(d)
    \/ \E d \in Direction : KeyUp(d)
    \/ PausedFrame
    \/ IdleFrame
    \/ TickFrame
    \/ Exit
    \/ Advance

Spec == Init /\ [][Next]_vars

\* ------------------------------------------------------------ claims
NoDuplicates(s) == \A i, j \in 1 .. Len(s) : i # j => s[i] # s[j]

\* A step is a tick: a loop iteration that reached the frame deadline and
\* moved it on by one interval (a space press toggles `paused').
Ticked ==
    /\ pc = "loop"
    /\ ~paused
    /\ paused' = paused
    /\ now >= next_frame
    /\ next_frame' = next_frame + interval

\* A tick that did not end the game.
Survived == Ticked /\ running' /\ pc' = "loop"

\* A cell of the torus, by cases on the edges.
Neighbour(c, d) ==
    CASE d = UP    -> <<c[1], IF c[2] = 0 THEN world_height - 1 ELSE c[2] - 1>>
      [] d = RIGHT -> <<IF c[1] = world_width - 1 THEN 0 ELSE c[1] + 1, c[2]>>
      [] d = DOWN  -> <<c[1], IF c[2] = world_height - 1 THEN 0 ELSE c[2] + 1>>
      [] d = LEFT  -> <<IF c[1] = 0 THEN world_width - 1 ELSE c[1] - 1, c[2]>>

\* The direction of the previous move, read off the first two segments
\* (UP in the initial state: the body is vertical, head on top).
PrevDirection == CHOOSE d \in Direction : Neighbour(snake[2], d) = snake[1]

\* The new head cell of a tick is the cell of another segment of the
\* shifted body: segments 2.. of the shifted body are the old 1..Len-1.
HeadHitsBody ==
    \E i \in 1 .. Len(snake) - 1 :
        snake[i] = Neighbour(snake[1], current_direction)

\* The spare parts left by the growth step of a tick.
AfterGrowth == IF spare_parts > 0 THEN spare_parts - 1 ELSE spare_parts

\* C1: while the game is not over (running or paused), no two segments of
\* the snake body occupy the same cell.
C1_NoSelfOverlap == (pc = "loop" /\ running) => NoDuplicates(snake)

\* C2: a tick whose new head cell, wrapped, is the cell of another segment
\* of the shifted body ends the game and applies no growth and no eating,
\* also when the head crosses a world edge.
C2_CollisionEndsGame ==
    [][(Ticked /\ HeadHitsBody) =>
          /\ ~running'
          /\ pc' = "final"
          /\ Len(snake') = Len(snake)
          /\ spare_parts' = spare_parts
          /\ food \subseteq food']_vars

\* C3: a tick whose direction is the opposite of the previous move ends the
\* game, wherever the snake is on the torus.
C3_ReversalFatal ==
    [][(Ticked /\ reversed(current_direction, PrevDirection)) =>
          (~running' /\ pc' = "final")]_vars

\* C4 as stated: after every tick the body is one longer when spare_parts
\* was positive (and one spare part is used), else as long as before.
C4_LengthEveryTick ==
    [][Ticked =>
          /\ Len(snake') = Len(snake) + (IF spare_parts > 0 THEN 1 ELSE 0)
          /\ spare_parts' \in {AfterGrowth, AfterGrowth + PARTS_AFTER_FOOD}]_vars

\* C4 amended: after every tick that does not end the game the body is one
\* longer when spare_parts was positive (and one spare part is used), else
\* as long as before; a tick that ends the game leaves both as they were.
C4_LengthAfterTick ==
    [][Ticked =>
          IF running'
          THEN /\ Len(snake') = Len(snake) + (IF spare_parts > 0 THEN 1 ELSE 0)
               /\ spare_parts' \in
                      {AfterGrowth, AfterGrowth + PARTS_AFTER_FOOD}
          ELSE /\ Len(snake') = Len(snake)
               /\ spare_parts' = spare_parts]_vars

\* C4 witness: the snake has grown by one segment and a spare part is used.
C4_Witness ==
    /\ pc = "loop"
    /\ Len(snake) = INITIAL_LENGTH + 1
    /\ spare_parts = PARTS_AFTER_FOOD - 1

\* C5: a tick that moves the head onto a food cell adds PARTS_AFTER_FOOD to
\* the spare parts the growth step left and removes that cell and no other
\* from the food set; a food cell leaves the food set in no other step, and
\* a tick whose head cell holds no food (none spawned either) adds nothing.
C5_Eating ==
    [][/\ (Survived /\ snake'[1] \in food) =>
             /\ spare_parts' = AfterGrowth + PARTS_AFTER_FOOD
             /\ snake'[1] \notin food'
             /\ food \ {snake'[1]} \subseteq food'
       /\ ~(food \subseteq food') =>
             /\ Survived
             /\ food \ food' = {snake'[1]}
             /\ spare_parts' = AfterGrowth + PARTS_AFTER_FOOD
       /\ Survived =>
             /\ spare_parts' \in {AfterGrowth, AfterGrowth + PARTS_AFTER_FOOD}
             /\ (snake'[1] \notin food /\ next_food' = next_food) =>
                    (spare_parts' = AfterGrowth /\ food' = food)]_vars

\* C5 witness: a food cell has just been eaten and another is in place.
C5_Witness ==
    /\ pc = "loop"
    /\ spare_parts = PARTS_AFTER_FOOD
    /\ Len(snake) = INITIAL_LENGTH
    /\ food # {}
    /\ snake[1] = <<world_width \div 2, (world_height \div 2) - 1>>
    /\ snake[2] # <<world_width \div 2, world_height \div 2>>

InGrid(c) == c[1] \in 0 .. world_width - 1 /\ c[2] \in 0 .. world_height - 1

\* C6: every body cell is inside the grid in every reachable state, and a
\* tick that does not end the game moves the head to the neighbour cell of
\* the torus: x = 0 goes Left to world_width - 1, x = world_width - 1 goes
\* Right to 0, y = 0 goes Up to world_height - 1 and y = world_height - 1
\* goes Down to 0.
C6_ToroidalWrap ==
    /\ [](\A i \in 1 .. Len(snake) : InGrid(snake[i]))
    /\ [][Survived =>
             snake'[1] = Neighbour(snake[1], current_direction)]_vars

\* C6 witness: the head has crossed the left edge, from x = 0 to
\* x = world_width - 1.
C6_Witness ==
    /\ pc = "loop"
    /\ snake[1][1] = world_width - 1
    /\ snake[2][1] = 0
    /\ snake[1][2] = snake[2][2]

\* The direction the key history gives: the key pressed last among those
\* still held, else the key released last.
HeldKeys == {d \in Direction : press_rank[d] > 0}
ExpectedDirection ==
    IF HeldKeys # {}
    THEN CHOOSE d \in HeldKeys : \A e \in HeldKeys : press_rank[e] <= press_rank[d]
    ELSE released

\* C7: as long as every release matched a held key, the direction of the
\* next tick is the key pressed last among those still held or, when no
\* key is held, the key released last (UP when none was); a step that is
\* no key event leaves it unchanged.
C7_EffectiveDirection ==
    /\ [](pc # "error" => current_direction = ExpectedDirection)
    /\ [][(press_rank' = press_rank /\ pc' # "error") =>
             current_direction' = current_direction]_vars

\* C7 witness: UP and RIGHT were pressed, RIGHT was released, and the tick
\* goes UP.
C7_Witness ==
    /\ pc = "loop"
    /\ press_rank[UP] = 1
    /\ HeldKeys = {UP}
    /\ released = RIGHT
    /\ last_direction = UP
    /\ current_direction = UP

\* A step is the KEYUP of a movement key that is not held: a key event
\* (not a space press) that leaves the held keys as they are.
UnmatchedKeyUp ==
    /\ pc = "loop"
    /\ nev' = nev + 1
    /\ paused' = paused
    /\ press_rank' = press_rank

\* C8: a KEYUP for a direction that is not held is ignored: it changes
\* nothing of the game and the loop keeps running.
C8_UnexpectedKeyUpIgnored ==
    [][UnmatchedKeyUp =>
          /\ pc' = "loop"
          /\ UNCHANGED <<snake_vars, key_vars, clock_vars, running,
                         paused>>]_vars

\* C9: while the game is paused no step changes the snake body, the spare
\* parts or the food set, whatever the time.
C9_PausedFreezes ==
    [][(pc = "loop" /\ paused) => UNCHANGED snake_vars]_vars

\* C9 witness: the game is paused and both deadlines have passed.
C9_Witness ==
    /\ pc = "loop"
    /\ paused
    /\ now >= next_frame + interval
    /\ now >= next_food

\* A step is a space press: `paused' is toggled and the loop goes on.
SpacePressed == pc = "loop" /\ pc' = "loop" /\ paused' # paused

\* A step spawns food: a loop iteration moves the food deadline on.
Spawned == pc = "loop" /\ paused' = paused /\ next_food' # next_food

\* C10: a space press sets next_frame to the current time and next_food to
\* the current time plus a sample, at least one second; after it no food is
\* spawned before one second has passed and no tick is owed.
C10_SpaceResetsDeadlines ==
    /\ [][SpacePressed =>
             /\ next_frame' = now
             /\ (next_food' - now) \in get_next_food_time
             /\ next_food' >= now + Second]_vars
    /\ [][(Spawned /\ space_time >= 0) => now >= space_time + Second]_vars
    /\ [][(Ticked /\ space_time >= 0) => next_frame >= space_time]_vars

\* C10 witness: the game was paused before the first loop iteration and
\* resumed, one tick has run since and food has been spawned.
C10_Witness ==
    /\ pc = "loop"
    /\ ~paused
    /\ space_time >= 0
    /\ food # {}
    /\ next_frame = space_time + interval
    /\ Len(snake) = INITIAL_LENGTH
    /\ snake[INITIAL_LENGTH] =
           <<world_width \div 2, (world_height \div 2) + INITIAL_LENGTH - 2>>

\* A step leaves the game loop without a tick: a quit event or escape.
QuitProcessed == pc = "loop" /\ pc' = "final" /\ next_frame' = next_frame

\* C11: a quit event or an escape key-down ends the game in the loop
\* iteration that processes it: the step moves no segment, grows nothing,
\* eats nothing, spawns no food and moves no deadline, and no event after
\* it changes the held keys or the pause.
C11_QuitEndsGameAtOnce ==
    /\ [][QuitProcessed =>
             /\ ~running'
             /\ paused'
             /\ UNCHANGED <<snake_vars, key_vars, clock_vars, eaten>>]_vars
    /\ [][pc = "final" =>
             UNCHANGED <<snake_vars, key_vars, clock_vars, paused, nev>>]_vars

\* C11 witness: the game was quit while running, with a tick and a food
\* spawn due and a key held.
C11_Witness ==
    /\ pc = "final"
    /\ paused
    /\ space_time = -1
    /\ now >= next_frame
    /\ now >= next_food
    /\ direction # <<>>

\* The game is over: the loop is left for the score screen or the exit.
GameOver == pc \in {"final", "exit"}

\* C12: the end of the game is terminal: once the loop is left, by a
\* collision or by a quit, no step changes the body, spare_parts or the
\* food, or returns to the running or the paused game; the score shown is
\* the body length, equal to the length before the step that ended the
\* game, also when spare_parts > 0.
C12_GameOverTerminal ==
    /\ [][GameOver =>
             /\ GameOver'
             /\ score' = score
             /\ UNCHANGED <<snake_vars, running, paused, eaten>>]_vars
    /\ [][(pc = "loop" /\ pc' = "final") => score' = Len(snake)]_vars
    /\ [](GameOver => ~running)

\* C12 witness: the score screen was left after a collision that happened
\* with spare parts owed.
C12_Witness ==
    /\ pc = "exit"
    /\ ~paused
    /\ spare_parts > 0
    /\ score = INITIAL_LENGTH

\* C13: fixed-step scheduling: the snake moves only in an iteration of the
\* running, unpaused loop whose time has reached next_frame, and by one
\* shift; next_frame changes only by a space press, to the current time, or
\* by a tick, by exactly one interval whatever the current time is; so a
\* tick is owed, and can be taken, for as long as next_frame is not beyond
\* the current time.
C13_FixedStep ==
    /\ [][snake' # snake =>
             /\ pc = "loop"
             /\ running
             /\ ~paused
             /\ now >= next_frame
             /\ next_frame' = next_frame + interval
             /\ \A i \in 2 .. Len(snake) : snake'[i] = snake[i - 1]]_vars
    /\ [][next_frame' # next_frame =>
             \/ SpacePressed /\ next_frame' = now
             \/ snake' # snake /\ next_frame' = next_frame + interval]_vars
    /\ []((pc = "loop" /\ ~paused /\ now >= next_frame) => ENABLED TickFrame)

\* C13 witness: since the game was resumed one tick has run and food has
\* been spawned for a deadline more than an interval after the resume; the
\* iteration that spawned it ran that tick, more than an interval late, and
\* next_frame is one interval after the resume, behind the current time.
C13_Witness ==
    /\ pc = "loop"
    /\ ~paused
    /\ space_time >= 0
    /\ next_frame = space_time + interval
    /\ next_food = space_time + 2 * (Second + 1)
    /\ now > next_frame

\* C14 as stated: food is added, and the food deadline moved on, only by a
\* loop iteration that performs a tick.
C14_SpawnOnlyInTick ==
    [][(food' \ food # {} \/ Spawned) => Ticked]_vars

\* C14: food is spawned by every iteration of the unpaused loop that finds
\* the time at or after next_food, whether it performs a tick or not: one
\* cell is added and next_food moves on by one sample; in an iteration that
\* ticks the spawn comes before the snake advances, so no food is left
\* under the head; an iteration that finds the time before next_food adds
\* no food and leaves the food deadline alone.
C14_SpawnBeforeFrameTest ==
    /\ [][(food' \ food # {} \/ Spawned) =>
             /\ pc = "loop"
             /\ ~paused
             /\ now >= next_food
             /\ Cardinality(food' \ food) <= 1
             /\ (next_food' - next_food) \in get_next_food_time]_vars
    /\ [][Ticked => (now >= next_food <=> next_food' # next_food)]_vars
    /\ [][Survived => snake'[1] \notin food']_vars
    /\ []((pc = "loop" /\ ~paused /\ now < next_frame /\ now >= next_food) =>
             ENABLED (Next /\ Spawned /\ next_frame' = next_frame))

\* C14 witness: food lies under the head: it was spawned after the tick
\* that moved the head there, by an iteration that performed no tick.
C14_Witness ==
    /\ pc = "loop"
    /\ snake[1] \in food

\* C15 as stated: as long as space has not been pressed, no food is
\* spawned before one second has passed since the start of the session.
C15_FirstSpawnDelayed ==
    [][((food' \ food # {} \/ Spawned) /\ space_time' = -1) =>
          now >= Second]_vars

\* C15: as long as space has not been pressed: next_food is the start time
\* until the first loop iteration, which spawns the first food with no
\* delay and schedules the next spawn one sample after the start; every
\* later spawn comes at or after its deadline, no earlier than one second
\* after the start, and moves the deadline on by one sample.
C15_FirstSpawnAtStart ==
    /\ [](space_time = -1 =>
             /\ next_frame = 0 => (next_food = 0 /\ food = {})
             /\ next_frame > 0 => next_food >= Second)
    /\ [][(Spawned /\ space_time' = -1) =>
             /\ now >= next_food
             /\ (next_food' - next_food) \in get_next_food_time
             /\ next_food = 0 => next_frame = 0
             /\ next_food > 0 => now >= Second]_vars

\* C15 witness: food is in place before one second has passed since the
\* start, without a space press.
C15_Witness ==
    /\ space_time = -1
    /\ now < Second
    /\ food # {}
    /\ next_food \in get_next_food_time

\* The grid cell a cell comes to when wrapped around the world.
WrappedCell(c) == <<c[1] % world_width, c[2] % world_height>>

\* C16: food cells have x in 0 .. world_width and y in 0 .. world_height,
\* both ends included, and a spawn may put any of these cells, whether the
\* body covers it or not; a food cell with x = world_width or
\* y = world_height stays in the food set for ever, the head being inside
\* the grid whenever eating is tested.  (The spawn is observed in the
\* iterations that do not tick, where nothing is eaten.)
C16_OffGridFoodStays ==
    /\ [](food \subseteq RandomCells)
    /\ [][\A c \in food : ~InGrid(c) => c \in food']_vars
    /\ [][Survived => InGrid(snake'[1])]_vars
    /\ []((pc = "loop" /\ ~paused /\ now >= next_food /\ now < next_frame) =>
             \A c \in SpawnCells : ENABLED (Next /\ Spawned /\ c \in food'))

\* C16 witness: the head stands on the grid cell that a food cell outside
\* the grid wraps to, a food cell lies under the body, and both are food.
C16_Witness ==
    /\ pc = "loop"
    /\ \E c \in food : ~InGrid(c) /\ WrappedCell(c) = snake[1]
    /\ \E i \in 2 .. Len(snake) : snake[i] \in food

\* C17: on a tick that does not end the game every segment but the head
\* takes the cell the segment before it had; the body grows by at most one
\* segment, only from spare parts owed before the tick, and the new last
\* segment is the cell the tail had before the tick; food eaten on a tick
\* adds nothing to the body on that tick: with no spare parts owed the
\* length stays, and the segments come one per tick on the following ticks.
C17_ShiftAndGrowth ==
    [][Survived =>
          /\ \A i \in 2 .. Len(snake) : snake'[i] = snake[i - 1]
          /\ Len(snake') = Len(snake) + (IF spare_parts > 0 THEN 1 ELSE 0)
          /\ Len(snake') > Len(snake) =>
                 snake'[Len(snake')] = snake[Len(snake)]
          /\ eaten' > eaten =>
                 spare_parts' = AfterGrowth + PARTS_AFTER_FOOD]_vars

\* C17 witness: one food cell was eaten with no spare parts owed, and the
\* three segments it gave have been added by the three ticks after it.
C17_Witness ==
    /\ pc = "loop"
    /\ eaten = 1
    /\ spare_parts = 0
    /\ Len(snake) = INITIAL_LENGTH + PARTS_AFTER_FOOD
    /\ next_frame = 4 * interval

\* C18: in every reachable state the body length plus spare_parts is
\* INITIAL_LENGTH plus PARTS_AFTER_FOOD for each food cell eaten so far,
\* and spare_parts is not negative; no step makes the body shorter.
C18_LengthAccounting ==
    /\ [](/\ Len(snake) + spare_parts =
                 INITIAL_LENGTH + PARTS_AFTER_FOOD * eaten
          /\ spare_parts >= 0)
    /\ [][Len(snake') >= Len(snake)]_vars

\* C18 witness: a food cell has been eaten and one of its segments added.
C18_Witness ==
    /\ eaten = 1
    /\ Len(snake) = INITIAL_LENGTH + 1
    /\ spare_parts = PARTS_AFTER_FOOD - 1

\* Two cells are orthogonal neighbours on the torus.
Adjacent(c, e) == \E d \in Direction : Neighbour(c, d) = e

\* C19: while the game is not over every two consecutive segments are
\* orthogonal neighbours on the torus, also right after a growth and after
\* the head has crossed a world edge.
C19_BodyContiguous ==
    (pc = "loop" /\ running) =>
        \A i \in 1 .. Len(snake) - 1 : Adjacent(snake[i + 1], snake[i])

\* C19 witness: the body has grown on every tick since the first, its tail
\* still on the cell it took on the first tick, and lies across a world edge.
C19_Witness ==
    /\ pc = "loop"
    /\ running
    /\ Len(snake) > INITIAL_LENGTH
    /\ snake[Len(snake)] =
           <<world_width \div 2, (world_height \div 2) + INITIAL_LENGTH - 2>>
    /\ \E i \in 1 .. Len(snake) - 1 :
          /\ snake[i][1] = world_width - 1
          /\ snake[i + 1][1] = 0

=============================================================================
